---- MODULE Spec2Model ----
(***************************************************************************)
(* Model of sna-tool/app.py: the adjacency-list parser, the metrics, the   *)
(* friend recommender, the fake-account detector and the request handler.  *)
(*                                                                         *)
(* Node identifiers are modelled as naturals; the order of the naturals    *)
(* stands for the lexicographic order of the identifier strings.  Real     *)
(* values (Python floats) are modelled as exact reduced fractions <<p,q>>. *)
(* A graph is the pair (nodes, adj): nodes is the insertion-ordered node   *)
(* list of nx.Graph, adj maps each node to its neighbour set (a node with  *)
(* a self-loop is its own neighbour).                                      *)
(***************************************************************************)
EXTENDS Integers, Sequences, FiniteSets, TLC

VARIABLES
  pc,               \* position of the request: "parse", "parsed", "done", ...
  nlines,           \* lines of the uploaded file read so far
  declared,         \* subjects of the lines read that list no friend
  nodes, adj,       \* the graph being built by parse_adjacency_list
  partition,        \* best_partition as run by generate_visualization
  sources,          \* source nodes sampled by nx.betweenness_centrality
  metrics,          \* result of calculate_metrics
  report,           \* counts, top-5 lists and community statistics
  sample_user, recommendations, potential_fakes

vars == <<pc, nlines, declared, nodes, adj, partition, sources, metrics,
          report, sample_user, recommendations, potential_fakes>>

\* ------------------------------------------------------------ bounds
MaxTok == 4
MaxLines == 2
MaxLineLen == 3
PairTok == 4
MetStar == 3
RecStar == 7
FakeStar == 13
BigStar == 100
SampleLines == 1

\* ------------------------------------------------- program constants
SampleCap == 100
TopRecommendations == 5
TopFakes == 10
TopInfluencers == 5

\* ------------------------------------------------------ real numbers
RECURSIVE Gcd(_, _)
Gcd(a, b) == IF b = 0 THEN a ELSE Gcd(b, a % b)

Abs(a) == IF a < 0 THEN -a ELSE a

\* the fraction p/q (q > 0) in lowest terms
Frac(p, q) ==
  LET g == Gcd(Abs(p), q) IN <<p \div g, q \div g>>

Zero == <<0, 1>>
One == <<1, 1>>
FAdd(x, y) == Frac(x[1] * y[2] + y[1] * x[2], x[2] * y[2])
FMul(x, y) == Frac(x[1] * y[1], x[2] * y[2])
FLess(x, y) == x[1] * y[2] < y[1] * x[2]

RECURSIVE FSum(_, _)
\* sum of f[x] over the finite set S
FSum(f, S) ==
  IF S = {} THEN Zero
  ELSE LET x == CHOOSE y \in S : TRUE IN FAdd(f[x], FSum(f, S \ {x}))

RECURSIVE ISum(_, _)
ISum(f, S) ==
  IF S = {} THEN 0
  ELSE LET x == CHOOSE y \in S : TRUE IN f[x] + ISum(f, S \ {x})

Min(a, b) == IF a < b THEN a ELSE b

\* ----------------------------------------------------------- sequences
Range(s) == {s[i] : i \in 1..Len(s)}

Take(s, k) == SubSeq(s, 1, Min(k, Len(s)))

\* Python's sorted(items, key=lambda x: x[1], reverse=descending): a stable
\* sort of <<node, score>> pairs.  Elements with equal scores keep their
\* input order (also under reverse=True), so the element at input position
\* i lands after every element that precedes it by score and after every
\* earlier element of equal score.
Sorted(s, descending) ==
  LET n == Len(s)
      before(x, y) == IF descending THEN FLess(y[2], x[2]) ELSE FLess(x[2], y[2])
      rank(i) == 1 + Cardinality({j \in 1..n :
                        \/ before(s[j], s[i])
                        \/ (~before(s[i], s[j]) /\ j < i)})
  IN [k \in 1..n |-> s[CHOOSE i \in 1..n : rank(i) = k]]

\* --------------------------------------------------------------- graph
NodeSet == Range(nodes)
NumNodes == Len(nodes)

HasEdge(u, v) == u \in NodeSet /\ v \in adj[u]

\* len(graph.edges()): unordered pairs, a self-loop counted once
Edges == {e \in SUBSET NodeSet : \E u \in e : \E v \in adj[u] : e = {u, v}}
NumEdges == Cardinality(Edges)

\* graph.degree: a self-loop counts twice
Degree(v) == Cardinality(adj[v]) + (IF v \in adj[v] THEN 1 ELSE 0)

\* the distinct elements of s in order of first appearance
FirstAppearances(s) ==
  SelectSeq([i \in 1..Len(s) |->
               IF \E j \in 1..(i - 1) : s[j] = s[i] THEN -1 ELSE s[i]],
            LAMBDA x : x # -1)

\* for friend in friends: graph.add_edge(user, friend), on the pair g of
\* node list and adjacency; add_edge rejects nothing, friend = user included.
\* The loop's net effect: with no friend the graph is untouched; otherwise
\* the user and the friends not yet in the graph become nodes in the order
\* they are met, the friends become neighbours of the user and the user a
\* neighbour of each friend.
AddFriends(g, user, friends) ==
  IF friends = <<>> THEN g
  ELSE LET met == FirstAppearances(
                    SelectSeq(<<user>> \o friends, LAMBDA x : x \notin Range(g[1])))
           order == g[1] \o met
           fs == Range(friends)
       IN <<order,
            [x \in Range(order) |->
               (IF x \in Range(g[1]) THEN g[2][x] ELSE {})
               \cup (IF x = user THEN fs ELSE {})
               \cup (IF x \in fs THEN {user} ELSE {})]>>

\* ------------------------------------------------------ shortest paths
RECURSIVE Bfs(_, _, _)
\* breadth-first search: d maps the nodes seen so far to their distance,
\* frontier holds the nodes at distance k
Bfs(d, frontier, k) ==
  LET next == UNION {adj[v] : v \in frontier} \ DOMAIN d IN
  IF next = {} THEN d
  ELSE Bfs(d @@ [x \in next |-> k + 1], next, k + 1)

\* nx.single_source_shortest_path_length(G, s): reachable node -> distance
ShortestPathLengths(s) == Bfs([x \in {s} |-> 0], {s}, 0)

\* nx.is_connected(G), for a graph with at least one node
IsConnected == DOMAIN ShortestPathLengths(nodes[1]) = NodeSet

\* -------------------------------------------------------------- metrics
\* faulty variant of DegreeCentrality: 0 instead of 1 when len(G) <= 1
DegreeCentralityZeroForOne ==
  [v \in NodeSet |->
     IF NumNodes <= 1 THEN Zero ELSE Frac(Degree(v), NumNodes - 1)]

\* nx.degree_centrality(G): 1 for every node when len(G) <= 1, otherwise
\* degree / (len(G) - 1)
DegreeCentrality ==
  [v \in NodeSet |->
     IF NumNodes <= 1 THEN One ELSE Frac(Degree(v), NumNodes - 1)]

\* nx.closeness_centrality(G) (wf_improved=True)
ClosenessCentrality ==
  [v \in NodeSet |->
     LET sp == ShortestPathLengths(v)
         totsp == ISum(sp, DOMAIN sp)
         r == Cardinality(DOMAIN sp)
     IN IF totsp > 0 /\ NumNodes > 1
        THEN FMul(Frac(r - 1, totsp), Frac(r - 1, NumNodes - 1))
        ELSE Zero]

\* number of shortest paths from s to every node reachable from s
RECURSIVE Sigma(_, _, _)
Sigma(s, d, w) ==
  IF w = s THEN 1
  ELSE LET pred == {v \in adj[w] : v \in DOMAIN d /\ d[v] = d[w] - 1}
       IN ISum([v \in pred |-> Sigma(s, d, v)], pred)

\* Brandes' dependency of source s on node v
RECURSIVE Delta(_, _, _)
Delta(s, d, v) ==
  LET succ == {w \in adj[v] : d[w] = d[v] + 1} IN
  FSum([w \in succ |->
          FMul(Frac(Sigma(s, d, v), Sigma(s, d, w)),
               FAdd(One, Delta(s, d, w)))], succ)

\* nx.betweenness_centrality(G, k=k) with the k sampled source nodes src:
\* dependencies accumulated over the sources, then rescaled (normalized,
\* undirected): nothing for n <= 2, otherwise 1/((n-1)(n-2)) * n/k
BetweennessCentrality(src) ==
  LET n == NumNodes
      k == Cardinality(src)
      raw(v) == FSum([s \in src \ {v} |->
                        LET d == ShortestPathLengths(s) IN
                        IF v \in DOMAIN d THEN Delta(s, d, v) ELSE Zero],
                     src \ {v})
  IN [v \in NodeSet |->
        IF n <= 2 THEN raw(v)
        ELSE FMul(raw(v), Frac(n, (n - 1) * (n - 2) * k))]

\* nx.clustering(G): self-loops are ignored; 0 when no triangle
Clustering ==
  [v \in NodeSet |->
     LET vs == adj[v] \ {v}
         d == Cardinality(vs)
         t == ISum([w \in vs |-> Cardinality(vs \cap (adj[w] \ {w}))], vs)
     IN IF t = 0 THEN Zero ELSE Frac(t, d * (d - 1))]

\* nx.average_clustering(G): mean over all nodes
AverageClustering ==
  LET c == FSum(Clustering, NodeSet) IN Frac(c[1], c[2] * NumNodes)

NotConnected == "Graph is not connected"

\* faulty variant of AvgPathLength: the sum of distances over the number of
\* unordered pairs
AvgPathLengthUnorderedPairs ==
  IF NumNodes = 1 THEN [value |-> Zero]
  ELSE IF ~IsConnected THEN [text |-> NotConnected]
  ELSE [value |->
          Frac(2 * ISum([v \in NodeSet |->
                           LET sp == ShortestPathLengths(v) IN ISum(sp, DOMAIN sp)],
                        NodeSet),
               NumNodes * (NumNodes - 1))]

\* try: nx.average_shortest_path_length(G) / except: the sentinel.
\* networkx returns 0 for a single node, raises for a graph that is not
\* connected, and otherwise divides the sum of all distances by n(n-1).
AvgPathLength ==
  IF NumNodes = 1 THEN [value |-> Zero]
  ELSE IF ~IsConnected THEN [text |-> NotConnected]
  ELSE [value |->
          Frac(ISum([v \in NodeSet |->
                       LET sp == ShortestPathLengths(v) IN ISum(sp, DOMAIN sp)],
                    NodeSet),
               NumNodes * (NumNodes - 1))]

\* nx.density(G): 0 when m = 0 or n <= 1, otherwise 2m / (n(n-1))
Density ==
  IF NumEdges = 0 \/ NumNodes <= 1 THEN Zero
  ELSE Frac(2 * NumEdges, NumNodes * (NumNodes - 1))

\* ------------------------------------------------------ recommendations
\* |N(u) & N(c)| / |N(u) | N(c)|
Jaccard(user, c) ==
  Frac(Cardinality(adj[user] \cap adj[c]), Cardinality(adj[user] \cup adj[c]))

\* faulty variant of IsCandidate: the has_edge filter is missing
IsCandidateAmongFriends(user, c) ==
  /\ c # user
  /\ Cardinality(adj[user] \cup adj[c]) > 0

\* the loop body's two filters: not the user, not already a friend, and a
\* non-empty union of the two neighbour sets
IsCandidate(user, c) ==
  /\ ~(c = user \/ HasEdge(user, c))
  /\ Cardinality(adj[user] \cup adj[c]) > 0

\* recommendations.items(): the candidates in graph.nodes() order
RecommendationItems(user) ==
  LET cand == SelectSeq(nodes, LAMBDA c : IsCandidate(user, c)) IN
  [i \in 1..Len(cand) |-> <<cand[i], Jaccard(user, cand[i])>>]

\* faulty variant of RecommendFriends: an ascending sort read backwards,
\* which also reverses the order of equal scores
RecommendFriendsReversed(user) ==
  LET asc == Sorted(RecommendationItems(user), FALSE)
      n == Len(asc)
  IN Take([i \in 1..n |-> asc[n + 1 - i]], TopRecommendations)

\* recommend_friends(graph, user)
RecommendFriends(user) ==
  Take(Sorted(RecommendationItems(user), TRUE), TopRecommendations)

\* --------------------------------------------------------- fake accounts
\* faulty variant of IsFlagged: <= instead of <
IsFlaggedInclusive(coeff, threshold) ==
  ~FLess(FMul(threshold, AverageClustering), coeff)

\* coeff < threshold * avg_clustering
IsFlagged(coeff, threshold) == FLess(coeff, FMul(threshold, AverageClustering))

\* potential_fakes before sorting: flagged nodes in clustering-dict order
FlaggedItems(threshold) ==
  LET c == Clustering
      fl == SelectSeq(nodes, LAMBDA v : IsFlagged(c[v], threshold))
  IN [i \in 1..Len(fl) |-> <<fl[i], c[fl[i]]>>]

\* detect_potential_fake_accounts(graph, threshold)
DetectPotentialFakeAccounts(threshold) ==
  Take(Sorted(FlaggedItems(threshold), FALSE), TopFakes)

DefaultThreshold == Frac(1, 10)

\* --------------------------------------------------- community detection
\* community_louvain.best_partition(graph) (python-louvain), with its default
\* random_state=None: every pass of the local-moving phase visits the nodes
\* in a freshly shuffled order and tries the neighbouring communities in a
\* shuffled order.  The operators below compute the SET of results the call
\* can return.  A level graph is [ord, w]: ord lists its nodes in
\* graph.nodes() order, w[<<u, v>>] is the weight of edge u-v (0: no edge).
\* Modularity is kept as the integer 4m^2 * Q.

LevelNodes(lg) == Range(lg.ord)

\* a level graph from its node order and weights, with graph.degree(node,
\* weight) of every node (a self-loop counts twice) and m2, twice
\* graph.size(weight)
MakeLevel(ord, w) ==
  LET ns == Range(ord)
      deg == [u \in ns |-> ISum([v \in ns |-> w[<<u, v>>]], ns) + w[<<u, u>>]]
  IN [ord |-> ord, w |-> w, deg |-> deg, m2 |-> ISum(deg, ns)]

\* the graph itself as the first level: every edge has weight 1
BaseLevel ==
  MakeLevel(nodes,
            [e \in NodeSet \X NodeSet |-> IF e[2] \in adj[e[1]] THEN 1 ELSE 0])

\* Status.init: the i-th node starts alone in community i-1
StatusInit(lg) ==
  LET n == Len(lg.ord) IN
  [node2com |-> [u \in LevelNodes(lg) |->
                   (CHOOSE i \in 1..n : lg.ord[i] = u) - 1],
   degrees |-> [c \in 0..(n - 1) |-> lg.deg[lg.ord[c + 1]]],
   internals |-> [c \in 0..(n - 1) |-> lg.w[<<lg.ord[c + 1], lg.ord[c + 1]>>]]]

\* __neighcom: weight of the links from node to community c, self-loop left out
NeighWeight(lg, st, node, c) ==
  LET vs == {v \in LevelNodes(lg) \ {node} : st.node2com[v] = c} IN
  ISum([v \in vs |-> lg.w[<<node, v>>]], vs)

NeighComs(lg, st, node) ==
  {st.node2com[v] : v \in {x \in LevelNodes(lg) \ {node} : lg.w[<<node, x>>] > 0}}

\* __modularity, times 4m^2
Modularity4(lg, st) ==
  LET coms == {st.node2com[u] : u \in LevelNodes(lg)} IN
  ISum([c \in coms |->
          2 * lg.m2 * st.internals[c] - st.degrees[c] * st.degrees[c]], coms)

\* the body of the node loop of __one_level for one node: the statuses it
\* can leave.  incr[c] is the gain of joining community c, times 2m; the
\* node joins a community of maximal gain when that gain is positive (which
\* one, among equals, is decided by the shuffled order), and otherwise
\* returns to its own.
MoveOutcomes(lg, st, node) ==
  LET com_node == st.node2com[node]
      k == lg.deg[node]
      loops == lg.w[<<node, node>>]
      ncs == NeighComs(lg, st, node)
      dnc == [c \in ncs \cup {com_node} |-> NeighWeight(lg, st, node, c)]
      removed == [st EXCEPT !.degrees[com_node] = @ - k,
                            !.internals[com_node] = @ - (dnc[com_node] + loops)]
      remove_cost == (st.degrees[com_node] - k) * k - lg.m2 * dnc[com_node]
      incr == [c \in ncs |->
                 remove_cost + lg.m2 * dnc[c] - removed.degrees[c] * k]
      positive == {c \in ncs : incr[c] > 0}
      best == IF positive = {} THEN {com_node}
              ELSE {c \in positive : \A c2 \in positive : incr[c2] <= incr[c]}
  IN {[removed EXCEPT !.node2com[node] = b,
                      !.degrees[b] = @ + k,
                      !.internals[b] = @ + dnc[b] + loops]
      : b \in best}

RECURSIVE PassOutcomes(_, _)
\* one pass over the nodes in every possible shuffled order; an element of
\* F is a status, whether a node has moved, and the nodes still to visit
PassOutcomes(lg, F) ==
  IF \A x \in F : x.rem = {} THEN F
  ELSE PassOutcomes(lg,
         UNION {UNION {{[st |-> s2,
                         modified |-> x.modified
                                      \/ s2.node2com[v] # x.st.node2com[v],
                         rem |-> x.rem \ {v}]
                        : s2 \in MoveOutcomes(lg, x.st, v)}
                       : v \in x.rem}
                : x \in F})

RECURSIVE OneLevel(_, _)
\* __one_level from each status of S: passes are repeated while a node moved
\* and the modularity rose by at least __MIN = 1e-7 (a rise of 4m^2 * Q by
\* less than 1 is no rise at all for the integer weights here)
OneLevel(lg, S) ==
  LET after == UNION {{[st |-> p.st,
                        again |-> p.modified
                                  /\ Modularity4(lg, p.st) - Modularity4(lg, s) > 0]
                       : p \in PassOutcomes(lg,
                                  {[st |-> s, modified |-> FALSE,
                                    rem |-> LevelNodes(lg)]})}
                      : s \in S}
      done == {a.st : a \in {x \in after : ~x.again}}
      more == {a.st : a \in {x \in after : x.again}}
  IN IF more = {} THEN done ELSE done \cup OneLevel(lg, more)

\* the k-th smallest element of the finite set of integers S
KthSmallest(S, k) == CHOOSE x \in S : Cardinality({y \in S : y < x}) = k - 1

\* __renumber: labels already in 0..c-1 are kept, the others take the unused
\* labels of 0..c-1
Renumber(node2com) ==
  LET values == {node2com[u] : u \in DOMAIN node2com}
      target == 0..(Cardinality(values) - 1)
      out == values \ target
      free == target \ values
      renumbering ==
        [v \in values |->
           IF v \in target THEN v
           ELSE KthSmallest(free, Cardinality({y \in out : y <= v}))]
  IN [u \in DOMAIN node2com |-> renumbering[node2com[u]]]

\* induced_graph(partition, graph): one node per community, the weights of
\* the edges between two communities added up (inside one: its self-loop)
InducedGraph(lg, part) ==
  LET ord2 == FirstAppearances([i \in 1..Len(lg.ord) |-> part[lg.ord[i]]])
      once == {e \in LevelNodes(lg) \X LevelNodes(lg) : e[1] <= e[2]}
      between(c1, c2) ==
        {e \in once : {part[e[1]], part[e[2]]} = {c1, c2}}
  IN MakeLevel(ord2,
               [c \in Range(ord2) \X Range(ord2) |->
                  ISum([e \in between(c[1], c[2]) |-> lg.w[e]],
                       between(c[1], c[2]))])

RECURSIVE Dendrogram(_)
\* the while loop of generate_dendrogram.  An element of R is a run: its
\* current level graph lg, the modularity mod reached, and flat, the
\* original nodes' labels at the last level kept
Dendrogram(R) ==
  LET after == UNION {{[run |-> r, st |-> s]
                       : s \in OneLevel(r.lg, {StatusInit(r.lg)})} : r \in R}
      stop == {a \in after : Modularity4(a.run.lg, a.st) - a.run.mod <= 0}
      go == after \ stop
      next == {LET part == Renumber(a.st.node2com) IN
               [lg |-> InducedGraph(a.run.lg, part),
                mod |-> Modularity4(a.run.lg, a.st),
                flat |-> [u \in DOMAIN a.run.flat |-> part[a.run.flat[u]]]]
               : a \in go}
  IN {a.run.flat : a \in stop}
     \cup (IF next = {} THEN {} ELSE Dendrogram(next))

\* best_partition(graph) for a graph with at least one edge: the first
\* level is always kept, further levels while they raise the modularity
BestPartition ==
  LET base == BaseLevel
      first == OneLevel(base, {StatusInit(base)})
  IN Dendrogram({LET part == Renumber(s.node2com) IN
                 [lg |-> InducedGraph(base, part),
                  mod |-> Modularity4(base, s),
                  flat |-> part]
                 : s \in first})

\* ------------------------------------------------------------- sampling
RECURSIVE Grow(_, _)
\* the subsets of S with exactly j elements, built one element at a time
Grow(S, j) ==
  IF j = 0 THEN {{}}
  ELSE UNION {{T \cup {x} : x \in S \ T} : T \in Grow(S, j - 1)}

\* the subsets of S with exactly k elements (through their complements when
\* those are smaller)
KSubsets(S, k) ==
  LET n == Cardinality(S) IN
  IF 2 * k > n THEN {S \ T : T \in Grow(S, n - k)} ELSE Grow(S, k)

\* faulty variant of SampleSize: the cap of 100 is missing
SampleSizeUncapped == NumNodes

\* k=min(100, len(graph.nodes())): networkx draws k distinct source nodes
\* with random.sample, unseeded; any k-subset can come out
SampleSize == Min(SampleCap, NumNodes)
SourceSamples == KSubsets(NodeSet, SampleSize)

\* ------------------------------------------------------ calculate_metrics
CalculateMetrics(src, communities) ==
  IF NumNodes = 0 THEN <<>>
  ELSE [degree_centrality |-> DegreeCentrality,
        betweenness_centrality |-> BetweennessCentrality(src),
        closeness_centrality |-> ClosenessCentrality,
        communities |-> communities,
        clustering_coefficients |-> Clustering,
        avg_path_length |-> AvgPathLength,
        density |-> Density]

\* sorted(d.items(), key=lambda x: x[1], reverse=True)[:5]
TopFive(d) ==
  Take(Sorted([i \in 1..NumNodes |-> <<nodes[i], d[nodes[i]]>>], TRUE),
       TopInfluencers)

\* community_stats: community label -> number of members
CommunityStats(communities) ==
  [c \in {communities[v] : v \in NodeSet} |->
     Cardinality({v \in NodeSet : communities[v] = c})]

\* ----------------------------------------------------------------- input
\* a line is the sequence of its whitespace-separated tokens; <<>> is a
\* blank line
ShortLines == UNION {[1..k -> 1..MaxTok] : k \in 0..MaxLineLen}

\* blank lines, lines of a subject alone, lines of a subject and one friend
PairLines == UNION {[1..k -> 1..PairTok] : k \in 0..2}

\* "1 2 3 ... k+1": subject 1 with friends 2..k+1, for lo <= k <= hi
StarLines(lo, hi) == {[i \in 1..(k + 1) |-> i] : k \in lo..hi}

\* "1 k+1 k ... 2": the same friends, listed in descending order
StarLinesDescending(lo, hi) ==
  {[i \in 1..(k + 1) |-> IF i = 1 THEN 1 ELSE k + 3 - i] : k \in lo..hi}

Thresholds == {Frac(1, 10), Frac(1, 2), One}

None == <<>>

Init ==
  /\ pc = "parse"
  /\ nlines = 0
  /\ declared = {}
  /\ nodes = <<>>
  /\ adj = <<>>
  /\ partition = None
  /\ sources = {}
  /\ metrics = None
  /\ report = None
  /\ sample_user = 0
  /\ recommendations = <<>>
  /\ potential_fakes = <<>>

\* one iteration of the loop of parse_adjacency_list over a line of L
ParseLine(L, maxLines) ==
  /\ pc = "parse"
  /\ nlines < maxLines
  /\ \E line \in L :
       LET g == IF line = <<>> THEN <<nodes, adj>>
                ELSE AddFriends(<<nodes, adj>>, Head(line), Tail(line))
       IN /\ nodes' = g[1]
          /\ adj' = g[2]
          /\ declared' = IF Len(line) = 1 THEN declared \cup {Head(line)}
                         ELSE declared
  /\ nlines' = nlines + 1
  /\ UNCHANGED <<pc, partition, sources, metrics, report, sample_user,
                 recommendations, potential_fakes>>

\* return graph
ParseReturn ==
  /\ pc = "parse"
  /\ pc' = "parsed"
  /\ UNCHANGED <<nlines, declared, nodes, adj, partition, sources, metrics,
                 report, sample_user, recommendations, potential_fakes>>

\* index(), after the file is parsed: the "No valid data" page for an empty
\* graph, otherwise the visualization, the metrics and the results page
Index ==
  /\ pc = "parsed"
  /\ IF NumNodes = 0
     THEN /\ pc' = "error"
          /\ UNCHANGED <<partition, sources, metrics, report, sample_user,
                         recommendations, potential_fakes>>
     ELSE /\ pc' = "done"
          /\ \E src \in SourceSamples :
               LET parts == BestPartition
                   m == CalculateMetrics(src, None)
                   top_degree == TopFive(m.degree_centrality)
                   top_betweenness == TopFive(m.betweenness_centrality)
                   top_closeness == TopFive(m.closeness_centrality)
                   user == top_degree[1][1]
                   recs == RecommendFriends(user)
                   fakes == DetectPotentialFakeAccounts(DefaultThreshold)
               IN \E viz \in parts, com \in parts :
                    /\ partition' = viz
                    /\ sources' = src
                    /\ metrics' = [m EXCEPT !.communities = com]
                    /\ report' = [num_nodes |-> NumNodes,
                                  num_edges |-> NumEdges,
                                  top_degree |-> top_degree,
                                  top_betweenness |-> top_betweenness,
                                  top_closeness |-> top_closeness,
                                  community_stats |-> CommunityStats(com)]
                    /\ sample_user' = user
                    /\ recommendations' = recs
                    /\ potential_fakes' = fakes
  /\ UNCHANGED <<nlines, declared, nodes, adj>>

\* calculate_metrics(graph) on its own
MetricsCall ==
  /\ pc = "parsed"
  /\ pc' = "measured"
  /\ IF NumNodes = 0
     THEN /\ metrics' = CalculateMetrics({}, None)
          /\ sources' = sources
     ELSE \E src \in SourceSamples :
            LET m == CalculateMetrics(src, None) IN
            \E com \in BestPartition :
              /\ metrics' = [m EXCEPT !.communities = com]
              /\ sources' = src
  /\ UNCHANGED <<nlines, declared, nodes, adj, partition, report, sample_user,
                 recommendations, potential_fakes>>

\* the choice of source nodes that opens nx.betweenness_centrality(graph, k)
SampleCall ==
  /\ pc = "parsed"
  /\ NumNodes > 0
  /\ pc' = "sampled"
  /\ sources' \in SourceSamples
  /\ UNCHANGED <<nlines, declared, nodes, adj, partition, metrics, report,
                 sample_user, recommendations, potential_fakes>>

\* recommend_friends(graph, user) for any user of the graph
RecommendCall ==
  /\ pc = "parsed"
  /\ pc' = "recommended"
  /\ \E user \in NodeSet :
       /\ sample_user' = user
       /\ recommendations' = RecommendFriends(user)
  /\ UNCHANGED <<nlines, declared, nodes, adj, partition, sources, metrics,
                 report, potential_fakes>>

\* detect_potential_fake_accounts(graph, threshold) for a non-empty graph
DetectCall ==
  /\ pc = "parsed"
  /\ NumNodes > 0
  /\ pc' = "detected"
  /\ \E t \in Thresholds :
       /\ potential_fakes' = DetectPotentialFakeAccounts(t)
       /\ report' = [threshold |-> t]
  /\ UNCHANGED <<nlines, declared, nodes, adj, partition, sources, metrics,
                 sample_user, recommendations>>

Next ==
  \/ ParseLine(ShortLines, MaxLines)
  \/ ParseReturn
  \/ Index

Spec == Init /\ [][Next]_vars

\* calculate_metrics applied to the graphs parsed from short inputs
NextMetrics ==
  \/ ParseLine(PairLines \cup StarLines(1, MetStar), MaxLines)
  \/ ParseReturn
  \/ MetricsCall

SpecMetrics == Init /\ [][NextMetrics]_vars

\* recommend_friends applied to every node of the parsed graph
NextRecommend ==
  \/ ParseLine(PairLines \cup StarLines(1, RecStar)
                 \cup StarLinesDescending(1, RecStar), MaxLines)
  \/ ParseReturn
  \/ RecommendCall

SpecRecommend == Init /\ [][NextRecommend]_vars

\* detect_potential_fake_accounts applied with several thresholds
NextFakes ==
  \/ ParseLine(PairLines \cup StarLines(1, FakeStar), MaxLines)
  \/ ParseReturn
  \/ DetectCall

SpecFakes == Init /\ [][NextFakes]_vars

\* the source sample of the betweenness computation, below and above the cap
NextSample ==
  \/ ParseLine(PairLines \cup StarLines(BigStar - 2, BigStar), SampleLines)
  \/ ParseReturn
  \/ SampleCall

SpecSample == Init /\ [][NextSample]_vars

\* ================================================================ claims

\* the position of node v in graph.nodes()
Position(v) == CHOOSE i \in 1..Len(nodes) : nodes[i] = v

RECURSIVE Ball(_, _)
\* the nodes at most k steps away from u
Ball(u, k) ==
  IF k = 0 THEN {u}
  ELSE LET b == Ball(u, k - 1) IN b \cup UNION {adj[x] : x \in b}

\* every node can be reached from every node
Connected == \A u \in NodeSet : Ball(u, NumNodes) = NodeSet

\* the length of a shortest path from u to v, v reachable from u
Distance(u, v) ==
  CHOOSE k \in 0..NumNodes :
    v \in Ball(u, k) /\ (k = 0 \/ v \notin Ball(u, k - 1))

\* C1: after any sequence of input lines the graph has no self-loop, i.e.
\* no node is its own neighbour.
NoSelfLoop == \A v \in NodeSet : v \notin adj[v]

\* C2: the node set is the set of all edge endpoints plus every subject
\* declared on a line without friends, and an input with such a line is not
\* answered with the "No valid data" page.
NodesAreEndpointsAndDeclared ==
  /\ NodeSet = (UNION Edges) \cup declared
  /\ (pc = "error" => declared = {})

\* C6: community detection gives every node one label, and the run made
\* for the visualization and the run made for the metrics of one request
\* return the same node-to-label mapping.  The labels being opaque group
\* identifiers, the formula asks only for what equal mappings imply on a
\* graph without self-loop: both runs put the same nodes together.
CommunityRunsAgree ==
  (pc = "done" /\ NoSelfLoop) =>
    /\ DOMAIN partition = NodeSet
    /\ DOMAIN metrics.communities = NodeSet
    /\ \A u, v \in NodeSet :
         (partition[u] = partition[v])
         <=> (metrics.communities[u] = metrics.communities[v])

\* C7: the degree centralities stored by calculate_metrics, each times
\* |V| - 1, add up to twice the edge count shown to the user.
HandshakeLemma ==
  pc = "done" =>
    FSum([v \in NodeSet |->
            FMul(metrics.degree_centrality[v], Frac(NumNodes - 1, 1))], NodeSet)
    = Frac(2 * report.num_edges, 1)

\* C8: for a non-empty graph the stored average path length is the
\* "Graph is not connected" text exactly when the graph is not connected,
\* and otherwise a number that, times the number of ordered pairs of
\* distinct nodes, is the sum of their shortest-path distances.
AvgPathLengthOrSentinel ==
  (pc = "measured" /\ NumNodes > 0) =>
    LET a == metrics.avg_path_length
        pairs == {e \in NodeSet \X NodeSet : e[1] # e[2]}
    IN /\ (a = [text |-> NotConnected]) <=> ~Connected
       /\ Connected =>
            /\ DOMAIN a = {"value"}
            /\ a.value[2] > 0
            /\ a.value[1] * Cardinality(pairs)
               = a.value[2] * ISum([e \in pairs |-> Distance(e[1], e[2])], pairs)

\* C8 witnesses: a connected graph with a longest distance of 2 or more, and
\* a graph without self-loop that is not connected.
AvgPathLengthCases ==
  /\ pc = "measured"
  /\ NoSelfLoop
  /\ \/ /\ Connected
        /\ \E u, v \in NodeSet : Distance(u, v) >= 2
        /\ metrics.avg_path_length = [value |-> Frac(4, 3)]
     \/ /\ ~Connected
        /\ NumNodes = 4
        /\ metrics.avg_path_length = [text |-> NotConnected]

Candidates(q) ==
  {c \in NodeSet \ {q} : c \notin adj[q] /\ adj[q] \cup adj[c] # {}}

Common(q, c) == Cardinality(adj[q] \cap adj[c])
Either(q, c) == Cardinality(adj[q] \cup adj[c])

\* candidate c scores strictly higher than candidate d for user q
ScoresHigher(q, c, d) == Common(q, c) * Either(q, d) > Common(q, d) * Either(q, c)

\* candidate c goes before candidate d when ties are broken by identifier
BeforeByIdentifier(q, c, d) ==
  ScoresHigher(q, c, d) \/ (~ScoresHigher(q, d, c) /\ c < d)

\* candidate c goes before candidate d when ties are broken by the order of
\* insertion into the graph
BeforeByInsertion(q, c, d) ==
  ScoresHigher(q, c, d) \/ (~ScoresHigher(q, d, c) /\ Position(c) < Position(d))

RecommendedNodes == {recommendations[i][1] : i \in 1..Len(recommendations)}

\* C3 as stated: the recommendations are the first five candidates in the
\* order of descending score with ties in ascending order of identifier.
RecommendationsByScoreThenIdentifier ==
  pc = "recommended" =>
    LET q == sample_user
        r == recommendations
    IN /\ \A i, j \in 1..Len(r) : i < j => BeforeByIdentifier(q, r[i][1], r[j][1])
       /\ \A c \in Candidates(q) \ RecommendedNodes :
            \A i \in 1..Len(r) : BeforeByIdentifier(q, r[i][1], c)

\* C3 as amended: the recommendations are the first five candidates in the
\* order of descending score with ties in the order in which the nodes were
\* inserted into the graph.
RecommendationsByScoreThenInsertion ==
  pc = "recommended" =>
    LET q == sample_user
        r == recommendations
    IN /\ Len(r) = Min(TopRecommendations, Cardinality(Candidates(q)))
       /\ RecommendedNodes \subseteq Candidates(q)
       /\ \A i, j \in 1..Len(r) : i < j => BeforeByInsertion(q, r[i][1], r[j][1])
       /\ \A c \in Candidates(q) \ RecommendedNodes :
            \A i \in 1..Len(r) : BeforeByInsertion(q, r[i][1], c)

\* C3 witness: a truncated list in which a tie is not in ascending order of
\* identifier and two entries have different scores.
RecommendationTieOutOfOrder ==
  /\ pc = "recommended"
  /\ Cardinality(Candidates(sample_user)) > TopRecommendations
  /\ \E i, j \in 1..Len(recommendations) :
       /\ i < j
       /\ recommendations[i][2] = recommendations[j][2]
       /\ recommendations[i][1] > recommendations[j][1]
  /\ \E i, j \in 1..Len(recommendations) :
       recommendations[i][2] # recommendations[j][2]

\* C4: recommend_friends returns at most five pairs <<c, s>>, c a node other
\* than the user and not adjacent to it, the two neighbour sets having a
\* non-empty union, and s the size of their intersection over the size of
\* their union.
RecommendationsAreJaccardCandidates ==
  pc = "recommended" =>
    /\ Len(recommendations) <= TopRecommendations
    /\ \A i \in 1..Len(recommendations) :
         LET c == recommendations[i][1]
             sc == recommendations[i][2]
         IN /\ c \in NodeSet
            /\ c # sample_user
            /\ c \notin adj[sample_user]
            /\ sample_user \notin adj[c]
            /\ Either(sample_user, c) > 0
            /\ sc[2] > 0
            /\ sc[1] * Either(sample_user, c) = Common(sample_user, c) * sc[2]

\* C4 witness: five recommendations, one with a score strictly between 0
\* and 1, for a user that has a neighbour.
FiveRecommendations ==
  /\ pc = "recommended"
  /\ Len(recommendations) = TopRecommendations
  /\ adj[sample_user] \ {sample_user} # {}
  /\ \E i \in 1..Len(recommendations) :
       0 < recommendations[i][2][1]
       /\ recommendations[i][2][1] < recommendations[i][2][2]

\* the local clustering coefficient of v as a pair <<numerator, denominator>>:
\* connected ordered pairs of distinct neighbours over all such pairs
NeighbourPairs(v) ==
  {e \in (adj[v] \ {v}) \X (adj[v] \ {v}) : e[1] # e[2]}
LinkedPairs(v) == {e \in NeighbourPairs(v) : e[2] \in adj[e[1]]}
Coefficient(v) ==
  IF LinkedPairs(v) = {} THEN Zero
  ELSE Frac(Cardinality(LinkedPairs(v)), Cardinality(NeighbourPairs(v)))

\* threshold times the mean of the local clustering coefficients
FlagLimit(t) ==
  FMul(t, FMul(FSum([v \in NodeSet |-> Coefficient(v)], NodeSet),
               Frac(1, NumNodes)))

FlaggedNodes == {potential_fakes[i][1] : i \in 1..Len(potential_fakes)}

\* C5: detect_potential_fake_accounts returns at most ten <<node,
\* coefficient>> pairs in ascending order of coefficient, each coefficient
\* being the node's local clustering coefficient and strictly below the
\* threshold times the average clustering; the list is empty when the
\* average is 0, and no node left out is below the limit with a coefficient
\* lower than a returned one.
FakesAreLowestBelowLimit ==
  pc = "detected" =>
    LET f == potential_fakes
        limit == FlagLimit(report.threshold)
        below == {v \in NodeSet : FLess(Coefficient(v), limit)}
    IN /\ Len(f) = Min(TopFakes, Cardinality(below))
       /\ \A i \in 1..Len(f) :
            /\ f[i][1] \in below
            /\ f[i][2] = Coefficient(f[i][1])
       /\ \A i, j \in 1..Len(f) : i < j => ~FLess(f[j][2], f[i][2])
       /\ \A i, j \in 1..Len(f) : i # j => f[i][1] # f[j][1]
       /\ limit = Zero => f = <<>>
       /\ \A v \in below \ FlaggedNodes :
            \A i \in 1..Len(f) : ~FLess(Coefficient(v), f[i][2])

\* C5 witness: more than ten nodes are below the limit, one of them with a
\* coefficient above 0, and ten are returned.
TenFakesOfMore ==
  /\ pc = "detected"
  /\ Len(potential_fakes) = TopFakes
  /\ \E v \in NodeSet \ FlaggedNodes :
       /\ FLess(Zero, Coefficient(v))
       /\ FLess(Coefficient(v), FlagLimit(report.threshold))

====
